---- MODULE Spec2Model ----
(***************************************************************************)
(* hydra-neo: the offset-aware patcher (injectAtHead, handling/mapHandler) *)
(* and the injection stage of the orchestrator (run, runner.ts).           *)
(*                                                                         *)
(* A string is a sequence of one-character strings; NL is "\n".            *)
(* A position is [line |-> 1-based, column |-> 0-based].                   *)
(***************************************************************************)
EXTENDS Integers, Sequences, FiniteSets, TLC

VARIABLES
    fail_on_error,   \* cfg.fail_on_error
    normalized,      \* normalized[m]: number of entries of mixin m's injections list
    bundle,          \* the bundle text owned by run
    injections,      \* the injection history: <<[pos, code], ...>>
    injectErrors,    \* the injection stage's error counter
    i,               \* index of the outer loop (0-based, as in run)
    j,               \* number of entries of normalized[i].injections already visited
    pc,              \* position of run: "mixin", "injection", "injected", "aborted"
                     \* (and "unit", "called" for the stand-alone calls of injectAtHead)
    loaded,          \* the bundle text as read from disk (never changed afterwards)
    calls,           \* log of the invocations of injectAtHead, in order
    mixinPaths,      \* the expanded mixin globs: <<1, ..., n>>
    idx,             \* number of items the current stage's for-of loop has visited
    loadErrors,      \* error counter of the mixin load stage
    sources,         \* sources[k]: the mixin whose target's source was found k-th
    sourceErrors,    \* error counter of the source lookup stage
    parsedSources,   \* parsedSources[k]: the mixin whose source was parsed k-th
    parseErrors,     \* error counter of the parse stage
    libs,            \* cfg.libs, from the point where run first looks at it
    loadedLibs,      \* libs read from disk
    libLoadErrors,   \* error counter of the lib load stage
    compressedLibs,  \* compressed text of the libs
    compressErrors,  \* error counter of the compress stage
    written,         \* the texts given to fs.writeFileSync(outputFile, ...), in order
    visit,           \* the latest iteration of the injection loop and its outcome
    notApplied,      \* number of iterations that ended without a splice
    sourceMapCache,  \* part_000:11: map path -> the consumer cached for it
    parses,          \* number of SourceMapConsumers constructed so far
    ret,             \* the latest call of a function of mapHandler and how it ended
    config,          \* background script: "null", "parsed" (files.json with a
                     \* files array), "parsedNoFiles" or "fallback" (line 31)
    requests         \* background script: the intercepted requests and their filters

runVars == <<mixinPaths, idx, loadErrors, sources, sourceErrors, parsedSources,
             parseErrors, libs, loadedLibs, libLoadErrors, compressedLibs,
             compressErrors, written, visit, notApplied>>

auxVars == <<sourceMapCache, parses, ret, config, requests>>

vars == <<fail_on_error, normalized, bundle, injections, injectErrors, i, j, pc,
          loaded, calls, runVars, auxVars>>

----------------------------------------------------------------------------
(* Bounds *)

NumMixins == 2          \* at most this many normalized mixins
MaxInjPerMixin == 1     \* at most this many injections declared by one mixin
MaxInjections == 2      \* at most this many injections declared in one run
MaxLine == 2            \* generated positions have line 1..MaxLine
MaxCol == 1             \* generated positions have column 0..MaxCol
MaxHistory == 2         \* stand-alone calls: at most this many prior injections

NL == "\n"

\* bundles read from disk: "ab\ncd" and "abc"
BundleSet == { <<"a", "b", NL, "c", "d">>, <<"a", "b", "c">> }

\* fragments returned by getMethodCodeInsideFunction (never empty, runner.ts:202):
\* "X" and "P\nQ"
FragmentSet == { <<"X">>, <<"P", NL, "Q">> }

\* generated positions returned by getGeneratedPosition
GenPosSet == [line : 1..MaxLine, column : 0..MaxCol]

\* injection.offset (absent = row 0, col 0)
OffsetSet == { [row |-> 0, col |-> 0], [row |-> -1, col |-> -1] }

----------------------------------------------------------------------------
(* String primitives used by injectAtHead *)

\* String.prototype.split("\n")
RECURSIVE split(_)
split(s) ==
    IF \A k \in 1..Len(s) : s[k] # NL
    THEN <<s>>
    ELSE LET k == CHOOSE k \in 1..Len(s) :
                      s[k] = NL /\ \A m \in 1..(k - 1) : s[m] # NL
         IN <<SubSeq(s, 1, k - 1)>> \o split(SubSeq(s, k + 1, Len(s)))

\* Array.prototype.join("\n")
RECURSIVE join(_)
join(lines) ==
    IF Len(lines) = 0 THEN <<>>
    ELSE IF Len(lines) = 1 THEN lines[1]
    ELSE lines[1] \o <<NL>> \o join(Tail(lines))

\* the index normalisation of String.prototype.slice: negative counts from
\* the end, everything is clamped to 0..len
sliceIndex(n, len) ==
    IF n < 0 THEN (IF len + n < 0 THEN 0 ELSE len + n)
    ELSE (IF n > len THEN len ELSE n)

\* a slice that always starts at the front of the string
slice_fromFront(s, from, to) ==
    SubSeq(s, 1, sliceIndex(to, Len(s)))

\* String.prototype.slice(from, to)
slice(s, from, to) ==
    SubSeq(s, sliceIndex(from, Len(s)) + 1, sliceIndex(to, Len(s)))

\* mutant of addedLines: the "- 1" is forgotten
addedLines_lengthOnly(code) == Len(split(code))

\* inj.code.split("\n").length - 1
addedLines(code) == Len(split(code)) - 1

----------------------------------------------------------------------------
(* injectAtHead *)

\* mutant of lineDelta: the column comparison on the same line is dropped
lineDelta_anyColumn(inj, pos) ==
    IF inj.pos.line < pos.line
    THEN addedLines(inj.code)
    ELSE IF inj.pos.line = pos.line
         THEN (IF addedLines(inj.code) > 0 THEN addedLines(inj.code) ELSE 0)
         ELSE 0

\* what one pass of the loop body adds to lineOffset
lineDelta(inj, pos) ==
    IF inj.pos.line < pos.line
    THEN addedLines(inj.code)
    ELSE IF inj.pos.line = pos.line /\ inj.pos.column <= pos.column
         THEN (IF addedLines(inj.code) > 0 THEN addedLines(inj.code) ELSE 0)
         ELSE 0

\* mutant of columnDelta: "<" instead of "<=" in the same-line comparison
columnDelta_strictColumn(inj, pos) ==
    IF inj.pos.line < pos.line
    THEN (IF addedLines(inj.code) = 0 THEN Len(inj.code) ELSE 0)
    ELSE IF inj.pos.line = pos.line /\ inj.pos.column < pos.column
         THEN (IF addedLines(inj.code) > 0 THEN 0 ELSE Len(inj.code))
         ELSE 0

\* what one pass of the loop body adds to columnOffset
columnDelta(inj, pos) ==
    IF inj.pos.line < pos.line
    THEN (IF addedLines(inj.code) = 0 THEN Len(inj.code) ELSE 0)
    ELSE IF inj.pos.line = pos.line /\ inj.pos.column <= pos.column
         THEN (IF addedLines(inj.code) > 0 THEN 0 ELSE Len(inj.code))
         ELSE 0

\* lineOffset after the loop over previousInjections
RECURSIVE lineOffset(_, _)
lineOffset(previousInjections, pos) ==
    IF previousInjections = <<>> THEN 0
    ELSE lineDelta(Head(previousInjections), pos)
         + lineOffset(Tail(previousInjections), pos)

\* columnOffset after the loop over previousInjections
RECURSIVE columnOffset(_, _)
columnOffset(previousInjections, pos) ==
    IF previousInjections = <<>> THEN 0
    ELSE columnDelta(Head(previousInjections), pos)
         + columnOffset(Tail(previousInjections), pos)

adjustedLine(pos, previousInjections) ==
    pos.line + lineOffset(previousInjections, pos)

\* mutant of adjustedColumn: off by one
adjustedColumn_offByOne(pos, previousInjections) ==
    pos.column + columnOffset(previousInjections, pos) + 1

adjustedColumn(pos, previousInjections) ==
    pos.column + columnOffset(previousInjections, pos)

\* mutant of outOfBounds: the last line is rejected too
outOfBounds_offByOne(aLine, lines) ==
    aLine - 1 < 0 \/ aLine >= Len(lines)

\* the bounds check that throws "Adjusted line ... is out of bounds"
outOfBounds(aLine, lines) ==
    aLine - 1 < 0 \/ aLine - 1 >= Len(lines)

\* mutant of spliceLine: after starts one character too late
spliceLine_dropsChar(targetLine, aColumn, code) ==
    slice(targetLine, 0, aColumn) \o code
        \o slice(targetLine, aColumn + 1, Len(targetLine))

\* before + code + after
spliceLine(targetLine, aColumn, code) ==
    slice(targetLine, 0, aColumn) \o code \o slice(targetLine, aColumn, Len(targetLine))

\* injectAtHead: threw = TRUE is the thrown Error, otherwise result is the
\* returned string; the local adjustedLine and adjustedColumn are exposed
injectAtHead(b, pos, previousInjections, code) ==
    LET lines == split(b)
        aLine == adjustedLine(pos, previousInjections)
        aColumn == adjustedColumn(pos, previousInjections)
    IN IF outOfBounds(aLine, lines)
       THEN [threw |-> TRUE, adjustedLine |-> aLine, adjustedColumn |-> aColumn,
             result |-> <<>>]
       ELSE [threw |-> FALSE, adjustedLine |-> aLine, adjustedColumn |-> aColumn,
             result |-> join([lines EXCEPT ![aLine] = spliceLine(lines[aLine], aColumn, code)])]

\* the log entry of one invocation of injectAtHead
callRecord(b, pos, previousInjections, code) ==
    LET r == injectAtHead(b, pos, previousInjections, code)
    IN [bundle |-> b, pos |-> pos, previousInjections |-> previousInjections,
        code |-> code, threw |-> r.threw, adjustedLine |-> r.adjustedLine,
        adjustedColumn |-> r.adjustedColumn, result |-> r.result]

----------------------------------------------------------------------------
(* The injection stage of run (runner.ts:151-233) *)

\* the lists of injection counts run can be given: at most NumMixins mixins,
\* each with at most MaxInjPerMixin injections, MaxInjections in total
RECURSIVE total(_)
total(counts) == IF counts = <<>> THEN 0 ELSE Head(counts) + total(Tail(counts))

NormalizedSet ==
    { counts \in UNION { [1..n -> 0..MaxInjPerMixin] : n \in 0..NumMixins } :
        total(counts) <= MaxInjections }

\* mutant of push: the entry is put in front of the history
push_front(history, genPos, methodCode) ==
    <<[pos |-> genPos, code |-> methodCode]>> \o history

\* injections.push({ pos: genPos, code: methodCode })
push(history, genPos, methodCode) ==
    Append(history, [pos |-> genPos, code |-> methodCode])

\* no iteration of the injection loop yet
NoVisit == [mixin |-> 0, mixinPriority |-> 0, decl |-> 0, priority |-> 0, ast |-> 0,
            where |-> "", outcome |-> ""]

\* the variables of the other stages of run, while only the injection stage
\* or a single call of injectAtHead is looked at
RunVarsIdle ==
    /\ mixinPaths = <<>>
    /\ idx = 0
    /\ loadErrors = 0
    /\ sources = <<>>
    /\ sourceErrors = 0
    /\ parsedSources = <<>>
    /\ parseErrors = 0
    /\ libs = <<>>
    /\ loadedLibs = <<>>
    /\ libLoadErrors = 0
    /\ compressedLibs = <<>>
    /\ compressErrors = 0
    /\ written = <<>>
    /\ visit = NoVisit
    /\ notApplied = 0

NoRet == [fn |-> "", threw |-> "", value |-> <<>>]

\* the variables of mapHandler's cache and of the background script, while
\* run or a single call of injectAtHead is looked at
AuxVarsIdle ==
    /\ sourceMapCache = <<>>
    /\ parses = 0
    /\ ret = NoRet
    /\ config = "null"
    /\ requests = <<>>

\* the state at runner.ts:154: bundle read, mixins loaded, history empty
Init ==
    /\ RunVarsIdle
    /\ AuxVarsIdle
    /\ fail_on_error \in BOOLEAN
    /\ normalized \in NormalizedSet
    /\ bundle \in BundleSet
    /\ loaded = bundle
    /\ injections = <<>>
    /\ injectErrors = 0
    /\ i = 0
    /\ j = 0
    /\ pc = "mixin"
    /\ calls = <<>>

\* runner.ts:156-162: next mixin; its code parses
EnterMixin ==
    /\ pc = "mixin"
    /\ i < Len(normalized)
    /\ pc' = "injection"
    /\ j' = 0
    /\ UNCHANGED <<auxVars, runVars, fail_on_error, normalized, bundle, injections, injectErrors, i,
                   loaded, calls>>

\* runner.ts:160: parseSourceToAST(mixin.code) throws, outside any try
MixinCodeParseThrows ==
    /\ pc = "mixin"
    /\ i < Len(normalized)
    /\ pc' = "aborted"
    /\ UNCHANGED <<auxVars, runVars, fail_on_error, normalized, bundle, injections, injectErrors, i, j,
                   loaded, calls>>

\* runner.ts:164 loop exhausted: back to the outer loop with i++
LeaveMixin ==
    /\ pc = "injection"
    /\ j = normalized[i + 1]
    /\ i' = i + 1
    /\ pc' = "mixin"
    /\ UNCHANGED <<auxVars, runVars, fail_on_error, normalized, bundle, injections, injectErrors, j,
                   loaded, calls>>

\* runner.ts:156 loop exhausted: the stage's summary at runner.ts:229
FinishInjecting ==
    /\ pc = "mixin"
    /\ i = Len(normalized)
    /\ pc' = "injected"
    /\ UNCHANGED <<auxVars, runVars, fail_on_error, normalized, bundle, injections, injectErrors, i, j,
                   loaded, calls>>

\* runner.ts:165: no source_method, continue
SkipNoSourceMethod ==
    /\ pc = "injection"
    /\ j < normalized[i + 1]
    /\ j' = j + 1
    /\ UNCHANGED <<auxVars, runVars, fail_on_error, normalized, bundle, injections, injectErrors, i, pc,
                   loaded, calls>>

\* runner.ts:167-177: getMethodBodyStart returns null
MethodNotFound ==
    /\ pc = "injection"
    /\ j < normalized[i + 1]
    /\ injectErrors' = injectErrors + 1
    /\ IF fail_on_error
       THEN pc' = "aborted" /\ j' = j
       ELSE pc' = pc /\ j' = j + 1
    /\ UNCHANGED <<auxVars, runVars, fail_on_error, normalized, bundle, injections, i, loaded, calls>>

\* runner.ts:179-195: getGeneratedPosition throws
GeneratedPositionThrows ==
    /\ pc = "injection"
    /\ j < normalized[i + 1]
    /\ injectErrors' = injectErrors + 1
    /\ IF fail_on_error
       THEN pc' = "aborted" /\ j' = j
       ELSE pc' = pc /\ j' = j + 1
    /\ UNCHANGED <<auxVars, runVars, fail_on_error, normalized, bundle, injections, i, loaded, calls>>

\* runner.ts:197-213: getMethodCodeInsideFunction returns nothing
CodeNotFound ==
    /\ pc = "injection"
    /\ j < normalized[i + 1]
    /\ injectErrors' = injectErrors + 1
    /\ IF fail_on_error
       THEN pc' = "aborted" /\ j' = j
       ELSE pc' = pc /\ j' = j + 1
    /\ UNCHANGED <<auxVars, runVars, fail_on_error, normalized, bundle, injections, i, loaded, calls>>

\* runner.ts:215-219: where = HEAD
InjectHead ==
    /\ pc = "injection"
    /\ j < normalized[i + 1]
    /\ \E genPos \in GenPosSet, offset \in OffsetSet, methodCode \in FragmentSet :
         LET pos == [line |-> genPos.line + offset.row,
                     column |-> genPos.column + offset.col]
             c == callRecord(bundle, pos, injections, methodCode)
         IN /\ calls' = Append(calls, c)
            /\ IF c.threw
               THEN /\ pc' = "aborted"
                    /\ UNCHANGED <<auxVars, bundle, injections, j>>
               ELSE /\ bundle' = c.result
                    /\ injections' = push(injections, genPos, methodCode)
                    /\ j' = j + 1
                    /\ pc' = pc
    /\ UNCHANGED <<auxVars, runVars, fail_on_error, normalized, injectErrors, i, loaded>>

\* runner.ts:224-225: where = TAIL
InjectTailThrows ==
    /\ pc = "injection"
    /\ j < normalized[i + 1]
    /\ pc' = "aborted"
    /\ UNCHANGED <<auxVars, runVars, fail_on_error, normalized, bundle, injections, injectErrors, i, j,
                   loaded, calls>>

Next ==
    \/ EnterMixin
    \/ MixinCodeParseThrows
    \/ LeaveMixin
    \/ FinishInjecting
    \/ SkipNoSourceMethod
    \/ MethodNotFound
    \/ GeneratedPositionThrows
    \/ CodeNotFound
    \/ InjectHead
    \/ InjectTailThrows

Spec == Init /\ [][Next]_vars

----------------------------------------------------------------------------
(* injectAtHead called on its own: the arguments are drawn, one call is made *)

\* "a\nb\nc\nd\nefgh\nij\nk\nl"
UnitBundleSet ==
    { <<"a", NL, "b", NL, "c", NL, "d", NL, "e", "f", "g", "h", NL, "i", "j", NL,
        "k", NL, "l">> }

UnitPosSet == [line : {5, 6}, column : {0, 3, 10}]

UnitFragmentSet == { <<"X">>, <<"Y", "Z">>, <<"P", NL, "Q">>, <<NL, "R", NL>> }

UnitCodeSet == { <<"X">>, <<"P", NL, "Q">> }

UnitHistorySet ==
    UNION { [1..n -> [pos : UnitPosSet, code : UnitFragmentSet]] : n \in 0..MaxHistory }

InitUnit ==
    /\ RunVarsIdle
    /\ AuxVarsIdle
    /\ fail_on_error = FALSE
    /\ normalized = <<>>
    /\ bundle \in UnitBundleSet
    /\ loaded = bundle
    /\ injections \in UnitHistorySet
    /\ injectErrors = 0
    /\ i = 0
    /\ j = 0
    /\ pc = "unit"
    /\ calls = <<>>

CallInjectAtHead ==
    /\ pc = "unit"
    /\ \E pos \in UnitPosSet, code \in UnitCodeSet :
         calls' = Append(calls, callRecord(bundle, pos, injections, code))
    /\ pc' = "called"
    /\ UNCHANGED <<auxVars, runVars, fail_on_error, normalized, bundle, injections, injectErrors, i, j,
                   loaded>>

NextUnit == CallInjectAtHead

SpecUnit == InitUnit /\ [][NextUnit]_vars

----------------------------------------------------------------------------
(* run as a whole (runner.ts:23-314): mixin load, source lookup, parse,      *)
(* injection, libs, write.  A mixin is [id, priority, injections]; id is the *)
(* position of its file in mixinPaths; an injection is [decl, priority],     *)
(* decl being its position in the mixin file.                                *)

MaxPaths == 2           \* at most this many mixin files

\* priorities a mixin or an injection can carry
PrioritySet == {0, 1}

\* injections lists a mixin file can declare (decl = declaration order)
InjectionListSet ==
    { <<>>,
      << [decl |-> 1, priority |-> 0] >>,
      << [decl |-> 1, priority |-> 1], [decl |-> 2, priority |-> 0] >>,
      << [decl |-> 1, priority |-> 0], [decl |-> 2, priority |-> 0] >> }

\* cfg.libs
LibsSet == { <<>>, <<"lib", "lib2">> }

\* what @babel/generator returns for a lib
CompressedSet == { <<"L">> }

\* bundles read from disk, for run as a whole
RunBundleSet == { <<"a", "b", "c">> }

\* what the lookups of one HEAD injection can yield: the generated position,
\* injection.offset and the fragment
RunHeadInputs ==
    { [genPos |-> [line |-> 1, column |-> 0], offset |-> [row |-> 0, col |-> 0],
       methodCode |-> <<"X">>],
      [genPos |-> [line |-> 1, column |-> 1], offset |-> [row |-> 0, col |-> 0],
       methodCode |-> <<"P", NL, "Q">>],
      [genPos |-> [line |-> 2, column |-> 1], offset |-> [row |-> -1, col |-> -1],
       methodCode |-> <<"X">>],
      [genPos |-> [line |-> 2, column |-> 0], offset |-> [row |-> 0, col |-> 0],
       methodCode |-> <<"X">>] }

WhereSet == {"HEAD", "TAIL"}

\* number of injections declared by the mixins of list
RECURSIVE declared(_)
declared(list) ==
    IF list = <<>> THEN 0
    ELSE Len(Head(list).injections) + declared(Tail(list))

RECURSIVE insertByPriority(_, _)
\* a sort that is not stable: x goes in front of the elements it ties with
insertByPriority_tiesFirst(x, sorted) ==
    IF sorted = <<>> THEN <<x>>
    ELSE IF Head(sorted).priority - x.priority >= 0
         THEN <<x>> \o sorted
         ELSE <<Head(sorted)>> \o insertByPriority(x, Tail(sorted))

\* where Array.prototype.sort puts x into an already sorted list: behind
\* every element that does not compare greater (the sort is stable)
insertByPriority(x, sorted) ==
    IF sorted = <<>> THEN <<x>>
    ELSE IF Head(sorted).priority - x.priority > 0
         THEN <<x>> \o sorted
         ELSE <<Head(sorted)>> \o insertByPriority(x, Tail(sorted))

\* list.sort((a, b) => a.priority - b.priority)
RECURSIVE sortByPriority(_)
sortByPriority(list) ==
    IF list = <<>> THEN <<>>
    ELSE insertByPriority(list[Len(list)], sortByPriority(SubSeq(list, 1, Len(list) - 1)))

\* a pattern with magic characters and the files glob.sync finds for it, or a
\* plain path (which is taken as it is, whether the file exists or not)
Glob(magic, hits) == [magic |-> magic, hits |-> hits]

\* cfg.mixins: the files are numbered from 1 in the order of the list
GlobListSet ==
    { <<>>, << Glob(TRUE, <<>>) >>, << Glob(TRUE, <<>>), Glob(TRUE, <<>>) >> }
    \cup { << Glob(TRUE, [k \in 1..n |-> k]) >> : n \in 1..MaxPaths }
    \cup { << Glob(FALSE, <<1>>), Glob(TRUE, [k \in 1..(n - 1) |-> k + 1]) >> :
             n \in 1..MaxPaths }

\* utils.ts:6-19
RECURSIVE expandGlobList(_)
expandGlobList(globsOrPaths) ==
    IF globsOrPaths = <<>> THEN <<>>
    ELSE Head(globsOrPaths).hits \o expandGlobList(Tail(globsOrPaths))

\* the state at runner.ts:61: config and bundle read, globs expanded
InitRun ==
    /\ AuxVarsIdle
    /\ fail_on_error \in BOOLEAN
    /\ bundle \in RunBundleSet
    /\ loaded = bundle
    /\ mixinPaths \in { expandGlobList(globs) : globs \in GlobListSet }
    /\ libs = <<>>
    /\ normalized = <<>>
    /\ injections = <<>>
    /\ injectErrors = 0
    /\ i = 0
    /\ j = 0
    /\ pc = "start"
    /\ calls = <<>>
    /\ idx = 0
    /\ loadErrors = 0
    /\ sources = <<>>
    /\ sourceErrors = 0
    /\ parsedSources = <<>>
    /\ parseErrors = 0
    /\ loadedLibs = <<>>
    /\ libLoadErrors = 0
    /\ compressedLibs = <<>>
    /\ compressErrors = 0
    /\ written = <<>>
    /\ visit = NoVisit
    /\ notApplied = 0

\* a run that writes the bundle as loaded when no mixin file matched
ReturnNoMixins_writesCopy ==
    /\ pc = "start"
    /\ Len(mixinPaths) = 0
    /\ pc' = "returned"
    /\ written' = Append(written, bundle)
    /\ UNCHANGED <<auxVars, fail_on_error, normalized, bundle, injections, injectErrors, i, j,
                   loaded, calls, mixinPaths, idx, loadErrors, sources, sourceErrors,
                   parsedSources, parseErrors, libs, loadedLibs, libLoadErrors,
                   compressedLibs, compressErrors, visit, notApplied>>

\* runner.ts:62-65: no mixin file matched
ReturnNoMixins ==
    /\ pc = "start"
    /\ Len(mixinPaths) = 0
    /\ pc' = "returned"
    /\ UNCHANGED <<auxVars, fail_on_error, normalized, bundle, injections, injectErrors, i, j,
                   loaded, calls, runVars>>

\* runner.ts:67-71
BeginLoading ==
    /\ pc = "start"
    /\ Len(mixinPaths) # 0
    /\ pc' = "loadMixins"
    /\ idx' = 0
    /\ normalized' = <<>>
    /\ loadErrors' = 0
    /\ UNCHANGED <<auxVars, fail_on_error, bundle, injections, injectErrors, i, j, loaded, calls,
                   mixinPaths, sources, sourceErrors, parsedSources, parseErrors, libs,
                   loadedLibs, libLoadErrors, compressedLibs, compressErrors, written,
                   visit, notApplied>>

\* runner.ts:73-78: the mixin file is read and normalized
LoadMixin ==
    /\ pc = "loadMixins"
    /\ idx < Len(mixinPaths)
    /\ \E priority \in PrioritySet, injs \in InjectionListSet :
         /\ declared(normalized) + Len(injs) <= MaxInjections
         /\ normalized' = Append(normalized, [id |-> mixinPaths[idx + 1],
                                              priority |-> priority,
                                              injections |-> injs])
    /\ idx' = idx + 1
    /\ UNCHANGED <<auxVars, fail_on_error, bundle, injections, injectErrors, i, j, pc, loaded,
                   calls, mixinPaths, loadErrors, sources, sourceErrors, parsedSources,
                   parseErrors, libs, loadedLibs, libLoadErrors, compressedLibs,
                   compressErrors, written, visit, notApplied>>

\* runner.ts:79-86: readMixinFile or normalizeMixin throws
LoadMixinThrows ==
    /\ pc = "loadMixins"
    /\ idx < Len(mixinPaths)
    /\ loadErrors' = loadErrors + 1
    /\ IF fail_on_error
       THEN pc' = "aborted" /\ idx' = idx
       ELSE pc' = pc /\ idx' = idx + 1
    /\ UNCHANGED <<auxVars, fail_on_error, normalized, bundle, injections, injectErrors, i, j,
                   loaded, calls, mixinPaths, sources, sourceErrors, parsedSources,
                   parseErrors, libs, loadedLibs, libLoadErrors, compressedLibs,
                   compressErrors, written, visit, notApplied>>

\* runner.ts:88-98: summary of the load stage, start of the source lookup
FinishLoading ==
    /\ pc = "loadMixins"
    /\ idx = Len(mixinPaths)
    /\ pc' = "findSources"
    /\ idx' = 0
    /\ sources' = <<>>
    /\ sourceErrors' = 0
    /\ UNCHANGED <<auxVars, fail_on_error, normalized, bundle, injections, injectErrors, i, j,
                   loaded, calls, mixinPaths, loadErrors, parsedSources, parseErrors,
                   libs, loadedLibs, libLoadErrors, compressedLibs, compressErrors,
                   written, visit, notApplied>>

\* runner.ts:100-107: the source of the mixin's target is found
FindSource ==
    /\ pc = "findSources"
    /\ idx < Len(normalized)
    /\ sources' = Append(sources, normalized[idx + 1].id)
    /\ idx' = idx + 1
    /\ UNCHANGED <<auxVars, fail_on_error, normalized, bundle, injections, injectErrors, i, j, pc,
                   loaded, calls, mixinPaths, loadErrors, sourceErrors, parsedSources,
                   parseErrors, libs, loadedLibs, libLoadErrors, compressedLibs,
                   compressErrors, written, visit, notApplied>>

\* runner.ts:108-115: getSourceByFilename throws
FindSourceThrows ==
    /\ pc = "findSources"
    /\ idx < Len(normalized)
    /\ sourceErrors' = sourceErrors + 1
    /\ IF fail_on_error
       THEN pc' = "aborted" /\ idx' = idx
       ELSE pc' = pc /\ idx' = idx + 1
    /\ UNCHANGED <<auxVars, fail_on_error, normalized, bundle, injections, injectErrors, i, j,
                   loaded, calls, mixinPaths, loadErrors, sources, parsedSources,
                   parseErrors, libs, loadedLibs, libLoadErrors, compressedLibs,
                   compressErrors, written, visit, notApplied>>

\* runner.ts:117-127: summary of the lookup stage, start of the parse stage
FinishFindingSources ==
    /\ pc = "findSources"
    /\ idx = Len(normalized)
    /\ pc' = "parseSources"
    /\ idx' = 0
    /\ parsedSources' = <<>>
    /\ parseErrors' = 0
    /\ UNCHANGED <<auxVars, fail_on_error, normalized, bundle, injections, injectErrors, i, j,
                   loaded, calls, mixinPaths, loadErrors, sources, sourceErrors, libs,
                   loadedLibs, libLoadErrors, compressedLibs, compressErrors, written,
                   visit, notApplied>>

\* runner.ts:129-132: the source parses
ParseSource ==
    /\ pc = "parseSources"
    /\ idx < Len(sources)
    /\ parsedSources' = Append(parsedSources, sources[idx + 1])
    /\ idx' = idx + 1
    /\ UNCHANGED <<auxVars, fail_on_error, normalized, bundle, injections, injectErrors, i, j, pc,
                   loaded, calls, mixinPaths, loadErrors, sources, sourceErrors,
                   parseErrors, libs, loadedLibs, libLoadErrors, compressedLibs,
                   compressErrors, written, visit, notApplied>>

\* runner.ts:133-140: parseSourceToAST throws
ParseSourceThrows ==
    /\ pc = "parseSources"
    /\ idx < Len(sources)
    /\ parseErrors' = parseErrors + 1
    /\ IF fail_on_error
       THEN pc' = "aborted" /\ idx' = idx
       ELSE pc' = pc /\ idx' = idx + 1
    /\ UNCHANGED <<auxVars, fail_on_error, normalized, bundle, injections, injectErrors, i, j,
                   loaded, calls, mixinPaths, loadErrors, sources, sourceErrors,
                   parsedSources, libs, loadedLibs, libLoadErrors, compressedLibs,
                   compressErrors, written, visit, notApplied>>

\* runner.ts:142-156: summary of the parse stage; normalized is sorted by
\* priority; the history and the error counter of the injection stage start
FinishParsing ==
    /\ pc = "parseSources"
    /\ idx = Len(sources)
    /\ normalized' = sortByPriority(normalized)
    /\ injections' = <<>>
    /\ injectErrors' = 0
    /\ i' = 0
    /\ pc' = "mixin"
    /\ UNCHANGED <<auxVars, fail_on_error, bundle, j, loaded, calls, mixinPaths, idx, loadErrors,
                   sources, sourceErrors, parsedSources, parseErrors, libs, loadedLibs,
                   libLoadErrors, compressedLibs, compressErrors, written, visit,
                   notApplied>>

\* const ast = parsedSources[i]: 0 stands for undefined
ast == IF i + 1 <= Len(parsedSources) THEN parsedSources[i + 1] ELSE 0

\* the iteration of the injection loop that is under way, with its outcome
Visit(where, outcome) ==
    LET mixin == normalized[i + 1]
        injection == mixin.injections[j + 1]
    IN [mixin |-> mixin.id, mixinPriority |-> mixin.priority,
        decl |-> injection.decl, priority |-> injection.priority,
        ast |-> ast, where |-> where, outcome |-> outcome]

\* runner.ts:156-162: next mixin; its code parses; its injections are sorted
VisitMixin ==
    /\ pc = "mixin"
    /\ i < Len(normalized)
    /\ normalized' = [normalized EXCEPT ![i + 1].injections = sortByPriority(@)]
    /\ j' = 0
    /\ pc' = "injection"
    /\ UNCHANGED <<auxVars, fail_on_error, bundle, injections, injectErrors, i, loaded, calls,
                   runVars>>

\* runner.ts:160: parseSourceToAST(mixin.code) throws, outside any try
MixinCodeThrows ==
    /\ pc = "mixin"
    /\ i < Len(normalized)
    /\ pc' = "aborted"
    /\ UNCHANGED <<auxVars, fail_on_error, normalized, bundle, injections, injectErrors, i, j,
                   loaded, calls, runVars>>

\* runner.ts:164 loop exhausted: i++
NextMixin ==
    /\ pc = "injection"
    /\ j = Len(normalized[i + 1].injections)
    /\ i' = i + 1
    /\ pc' = "mixin"
    /\ UNCHANGED <<auxVars, fail_on_error, normalized, bundle, injections, injectErrors, j,
                   loaded, calls, runVars>>

\* runner.ts:165: the injection has no source_method, continue
NoSourceMethod ==
    /\ pc = "injection"
    /\ j < Len(normalized[i + 1].injections)
    /\ \E where \in WhereSet : visit' = Visit(where, "no source_method")
    /\ notApplied' = notApplied + 1
    /\ j' = j + 1
    /\ UNCHANGED <<auxVars, fail_on_error, normalized, bundle, injections, injectErrors, i, pc,
                   loaded, calls, mixinPaths, idx, loadErrors, sources, sourceErrors,
                   parsedSources, parseErrors, libs, loadedLibs, libLoadErrors,
                   compressedLibs, compressErrors, written>>

\* a missing method that is skipped without injectErrors++
NoBodyStart_uncounted ==
    /\ pc = "injection"
    /\ j < Len(normalized[i + 1].injections)
    /\ \E where \in WhereSet : visit' = Visit(where, "method not found")
    /\ notApplied' = notApplied + 1
    /\ injectErrors' = injectErrors
    /\ IF fail_on_error
       THEN pc' = "aborted" /\ j' = j
       ELSE pc' = pc /\ j' = j + 1
    /\ UNCHANGED <<auxVars, fail_on_error, normalized, bundle, injections, i, loaded, calls,
                   mixinPaths, idx, loadErrors, sources, sourceErrors,
                   parsedSources, parseErrors, libs, loadedLibs, libLoadErrors,
                   compressedLibs, compressErrors, written>>

\* runner.ts:167-177: getMethodBodyStart returns null (it does for an undefined ast)
NoBodyStart ==
    /\ pc = "injection"
    /\ j < Len(normalized[i + 1].injections)
    /\ \E where \in WhereSet : visit' = Visit(where, "method not found")
    /\ notApplied' = notApplied + 1
    /\ injectErrors' = injectErrors + 1
    /\ IF fail_on_error
       THEN pc' = "aborted" /\ j' = j
       ELSE pc' = pc /\ j' = j + 1
    /\ UNCHANGED <<auxVars, fail_on_error, normalized, bundle, injections, i, loaded, calls,
                   mixinPaths, idx, loadErrors, sources, sourceErrors,
                   parsedSources, parseErrors, libs, loadedLibs, libLoadErrors,
                   compressedLibs, compressErrors, written>>

\* runner.ts:179-195: getGeneratedPosition throws
NoGeneratedPosition ==
    /\ pc = "injection"
    /\ j < Len(normalized[i + 1].injections)
    /\ ast # 0
    /\ \E where \in WhereSet : visit' = Visit(where, "position not found")
    /\ notApplied' = notApplied + 1
    /\ injectErrors' = injectErrors + 1
    /\ IF fail_on_error
       THEN pc' = "aborted" /\ j' = j
       ELSE pc' = pc /\ j' = j + 1
    /\ UNCHANGED <<auxVars, fail_on_error, normalized, bundle, injections, i, loaded, calls,
                   mixinPaths, idx, loadErrors, sources, sourceErrors,
                   parsedSources, parseErrors, libs, loadedLibs, libLoadErrors,
                   compressedLibs, compressErrors, written>>

\* runner.ts:197-213: getMethodCodeInsideFunction returns nothing
NoMethodCode ==
    /\ pc = "injection"
    /\ j < Len(normalized[i + 1].injections)
    /\ ast # 0
    /\ \E where \in WhereSet : visit' = Visit(where, "code not found")
    /\ notApplied' = notApplied + 1
    /\ injectErrors' = injectErrors + 1
    /\ IF fail_on_error
       THEN pc' = "aborted" /\ j' = j
       ELSE pc' = pc /\ j' = j + 1
    /\ UNCHANGED <<auxVars, fail_on_error, normalized, bundle, injections, i, loaded, calls,
                   mixinPaths, idx, loadErrors, sources, sourceErrors,
                   parsedSources, parseErrors, libs, loadedLibs, libLoadErrors,
                   compressedLibs, compressErrors, written>>

\* runner.ts:215-219: where = HEAD; an Error thrown by injectAtHead leaves run
HeadInjection ==
    /\ pc = "injection"
    /\ j < Len(normalized[i + 1].injections)
    /\ ast # 0
    /\ \E in \in RunHeadInputs :
         LET pos == [line |-> in.genPos.line + in.offset.row,
                     column |-> in.genPos.column + in.offset.col]
             r == injectAtHead(bundle, pos, injections, in.methodCode)
         IN IF r.threw
            THEN /\ visit' = Visit("HEAD", "out of bounds")
                 /\ notApplied' = notApplied + 1
                 /\ pc' = "aborted"
                 /\ UNCHANGED <<auxVars, bundle, injections, j>>
            ELSE /\ visit' = Visit("HEAD", "applied")
                 /\ bundle' = r.result
                 /\ injections' = push(injections, in.genPos, in.methodCode)
                 /\ j' = j + 1
                 /\ UNCHANGED <<auxVars, notApplied, pc>>
    /\ UNCHANGED <<auxVars, fail_on_error, normalized, injectErrors, i, loaded, calls,
                   mixinPaths, idx, loadErrors, sources, sourceErrors, parsedSources,
                   parseErrors, libs, loadedLibs, libLoadErrors, compressedLibs,
                   compressErrors, written>>

\* runner.ts:224-225: where = TAIL
TailInjection ==
    /\ pc = "injection"
    /\ j < Len(normalized[i + 1].injections)
    /\ ast # 0
    /\ visit' = Visit("TAIL", "not implemented")
    /\ notApplied' = notApplied + 1
    /\ pc' = "aborted"
    /\ UNCHANGED <<auxVars, fail_on_error, normalized, bundle, injections, injectErrors, i, j,
                   loaded, calls, mixinPaths, idx, loadErrors, sources, sourceErrors,
                   parsedSources, parseErrors, libs, loadedLibs, libLoadErrors,
                   compressedLibs, compressErrors, written>>

\* a loop over the mixins that may stop before the last one
InjectionsDone_early ==
    /\ pc = "mixin"
    /\ i <= Len(normalized)
    /\ pc' = "loadLibs"
    /\ libs' \in LibsSet
    /\ idx' = 0
    /\ loadedLibs' = <<>>
    /\ libLoadErrors' = 0
    /\ UNCHANGED <<auxVars, fail_on_error, normalized, bundle, injections, injectErrors, i, j,
                   loaded, calls, mixinPaths, loadErrors, sources, sourceErrors,
                   parsedSources, parseErrors, compressedLibs, compressErrors,
                   written, visit, notApplied>>

\* runner.ts:229-239: summary of the injection stage, start of the lib load
InjectionsDone ==
    /\ pc = "mixin"
    /\ i = Len(normalized)
    /\ pc' = "loadLibs"
    /\ libs' \in LibsSet
    /\ idx' = 0
    /\ loadedLibs' = <<>>
    /\ libLoadErrors' = 0
    /\ UNCHANGED <<auxVars, fail_on_error, normalized, bundle, injections, injectErrors, i, j,
                   loaded, calls, mixinPaths, loadErrors, sources, sourceErrors,
                   parsedSources, parseErrors, compressedLibs, compressErrors,
                   written, visit, notApplied>>

\* runner.ts:244-251: the lib is read
LoadLib ==
    /\ pc = "loadLibs"
    /\ idx < Len(libs)
    /\ loadedLibs' = Append(loadedLibs, libs[idx + 1])
    /\ idx' = idx + 1
    /\ UNCHANGED <<auxVars, fail_on_error, normalized, bundle, injections, injectErrors, i, j, pc,
                   loaded, calls, mixinPaths, loadErrors, sources, sourceErrors,
                   parsedSources, parseErrors, libs, libLoadErrors, compressedLibs,
                   compressErrors, written, visit, notApplied>>

\* runner.ts:252-257: fs.readFileSync throws
LoadLibThrows ==
    /\ pc = "loadLibs"
    /\ idx < Len(libs)
    /\ libLoadErrors' = libLoadErrors + 1
    /\ IF fail_on_error
       THEN pc' = "aborted" /\ idx' = idx
       ELSE pc' = pc /\ idx' = idx + 1
    /\ UNCHANGED <<auxVars, fail_on_error, normalized, bundle, injections, injectErrors, i, j,
                   loaded, calls, mixinPaths, loadErrors, sources, sourceErrors,
                   parsedSources, parseErrors, libs, loadedLibs, compressedLibs,
                   compressErrors, written, visit, notApplied>>

\* runner.ts:241-243, 259-271: summary of the lib load, start of the compression
FinishLoadingLibs ==
    /\ pc = "loadLibs"
    /\ idx = Len(libs)
    /\ pc' = "compressLibs"
    /\ idx' = 0
    /\ compressedLibs' = <<>>
    /\ compressErrors' = 0
    /\ UNCHANGED <<auxVars, fail_on_error, normalized, bundle, injections, injectErrors, i, j,
                   loaded, calls, mixinPaths, loadErrors, sources, sourceErrors,
                   parsedSources, parseErrors, libs, loadedLibs, libLoadErrors, written,
                   visit, notApplied>>

\* runner.ts:273-285: the lib is parsed and generated compactly
CompressLib ==
    /\ pc = "compressLibs"
    /\ idx < Len(loadedLibs)
    /\ \E compressed \in CompressedSet :
         compressedLibs' = Append(compressedLibs, compressed)
    /\ idx' = idx + 1
    /\ UNCHANGED <<auxVars, fail_on_error, normalized, bundle, injections, injectErrors, i, j, pc,
                   loaded, calls, mixinPaths, loadErrors, sources, sourceErrors,
                   parsedSources, parseErrors, libs, loadedLibs, libLoadErrors,
                   compressErrors, written, visit, notApplied>>

\* a catch block that never rethrows
CompressLibThrows_swallowed ==
    /\ pc = "compressLibs"
    /\ idx < Len(loadedLibs)
    /\ compressErrors' = compressErrors + 1
    /\ pc' = pc
    /\ idx' = idx + 1
    /\ UNCHANGED <<auxVars, fail_on_error, normalized, bundle, injections, injectErrors, i, j,
                   loaded, calls, mixinPaths, loadErrors, sources, sourceErrors,
                   parsedSources, parseErrors, libs, loadedLibs, libLoadErrors,
                   compressedLibs, written, visit, notApplied>>

\* runner.ts:286-291: parse or generate throws
CompressLibThrows ==
    /\ pc = "compressLibs"
    /\ idx < Len(loadedLibs)
    /\ compressErrors' = compressErrors + 1
    /\ IF fail_on_error
       THEN pc' = "aborted" /\ idx' = idx
       ELSE pc' = pc /\ idx' = idx + 1
    /\ UNCHANGED <<auxVars, fail_on_error, normalized, bundle, injections, injectErrors, i, j,
                   loaded, calls, mixinPaths, loadErrors, sources, sourceErrors,
                   parsedSources, parseErrors, libs, loadedLibs, libLoadErrors,
                   compressedLibs, written, visit, notApplied>>

\* the first lib only
combinedLibs_firstOnly(compressed) == compressed[1]

\* compressedLibs.map((l) => l.compressed).join("\n")
combinedLibs(compressed) == join(compressed)

\* the libs in place of the bundle
withLibs_dropsBundle(b, compressed) ==
    IF Len(compressed) > 0 THEN combinedLibs(compressed) \o <<NL>> ELSE b

\* runner.ts:300-304: the bundle with the compressed libs in front
withLibs(b, compressed) ==
    IF Len(compressed) > 0 THEN combinedLibs(compressed) \o <<NL>> \o b ELSE b

\* runner.ts:294-313: summary of the compression, libs prepended, bundle written
WriteBundle ==
    /\ pc = "compressLibs"
    /\ idx = Len(loadedLibs)
    /\ bundle' = withLibs(bundle, compressedLibs)
    /\ written' = Append(written, bundle')
    /\ pc' = "done"
    /\ UNCHANGED <<auxVars, fail_on_error, normalized, injections, injectErrors, i, j, loaded,
                   calls, mixinPaths, idx, loadErrors, sources, sourceErrors,
                   parsedSources, parseErrors, libs, loadedLibs, libLoadErrors,
                   compressedLibs, compressErrors, visit, notApplied>>

NextRun ==
    \/ ReturnNoMixins
    \/ BeginLoading
    \/ LoadMixin
    \/ LoadMixinThrows
    \/ FinishLoading
    \/ FindSource
    \/ FindSourceThrows
    \/ FinishFindingSources
    \/ ParseSource
    \/ ParseSourceThrows
    \/ FinishParsing
    \/ VisitMixin
    \/ MixinCodeThrows
    \/ NextMixin
    \/ NoSourceMethod
    \/ NoBodyStart
    \/ NoGeneratedPosition
    \/ NoMethodCode
    \/ HeadInjection
    \/ TailInjection
    \/ InjectionsDone
    \/ LoadLib
    \/ LoadLibThrows
    \/ FinishLoadingLibs
    \/ CompressLib
    \/ CompressLibThrows
    \/ WriteBundle

SpecRun == InitRun /\ [][NextRun]_vars

----------------------------------------------------------------------------
(* mapHandler: the source-map cache and the source lookup *)

MaxParses == 3          \* at most this many SourceMapConsumers are constructed

\* a value that is undefined or null, or a string
Absent == [present |-> FALSE, text |-> <<>>]

Text(chars) == [present |-> TRUE, text |-> chars]

\* the files on disk: one map with inlined sources, one without, no file else
\*   a.map: sources ["x/a", "y/a", "ba", "c", "d"],
\*          sourcesContent ["A", "B", "C", null, ""]
\*   b.map: sources ["x/a"], no sourcesContent
MapFiles ==
    [ amap |-> [sources |-> << <<"x", "/", "a">>, <<"y", "/", "a">>, <<"b", "a">>,
                               <<"c">>, <<"d">> >>,
                hasContent |-> TRUE,
                sourcesContent |-> << Text(<<"A">>), Text(<<"B">>), Text(<<"C">>),
                                      Absent, Text(<<>>) >>],
      bmap |-> [sources |-> << <<"x", "/", "a">> >>,
                hasContent |-> FALSE,
                sourcesContent |-> << >>] ]

\* the map paths a caller passes; "" stands for undefined, "nomap" has no file
MapPathSet == {"amap", "bmap", "nomap", ""}

FilenameSet ==
    { <<"a">>, <<"/", "a">>, <<"y", "/", "a">>, <<"b", "a">>, <<"c">>, <<"d">>,
      <<"e">>, <<>> }

\* a test that looks for the filename at the front
endsWith_startsWith(src, filename) ==
    /\ Len(filename) <= Len(src)
    /\ SubSeq(src, 1, Len(filename)) = filename

\* src.endsWith(filename)
endsWith(src, filename) ==
    /\ Len(filename) <= Len(src)
    /\ SubSeq(src, Len(src) - Len(filename) + 1, Len(src)) = filename

\* list.findIndex((src) => src.endsWith(filename)), 0-based, -1 for none
findIndex(list, filename) ==
    LET hits == { k \in DOMAIN list : endsWith(list[k], filename) }
    IN IF hits = {} THEN -1
       ELSE (CHOOSE k \in hits : \A h \in hits : k <= h) - 1

\* a cache that is never hit
isCached_never(cache, path) == FALSE

\* if (sourceMapCache[path])
isCached(cache, path) == path \in DOMAIN cache

\* part_000:13-23; parsed counts the consumers constructed before the call
loadSourceMap(cache, parsed, path) ==
    IF isCached(cache, path)
    THEN [threw |-> "", smc |-> IF path \in DOMAIN cache THEN cache[path] ELSE NoRet,
          cache |-> cache, parses |-> parsed]
    ELSE IF path \notin DOMAIN MapFiles
    THEN [threw |-> "read", smc |-> NoRet, cache |-> cache, parses |-> parsed]
    ELSE LET smc == [id |-> parsed + 1, map |-> MapFiles[path]]
         IN [threw |-> "", smc |-> smc,
             cache |-> [p \in DOMAIN cache \cup {path} |->
                          IF p = path THEN smc ELSE cache[p]],
             parses |-> parsed + 1]

\* smc.sourcesContent?.[index]
contentAt(map, index) ==
    IF map.hasContent /\ index + 1 \in DOMAIN map.sourcesContent
    THEN map.sourcesContent[index + 1]
    ELSE Absent

\* part_000:25-46, given the outcome of its loadSourceMap
getSourceByFilename(path, filename, load) ==
    IF path = "" THEN [threw |-> "undefined path", value |-> <<>>]
    ELSE IF load.threw # "" THEN [threw |-> load.threw, value |-> <<>>]
    ELSE LET index == findIndex(load.smc.map.sources, filename)
             sourceCode == contentAt(load.smc.map, index)
         IN IF index = -1 THEN [threw |-> "not found", value |-> <<>>]
            ELSE IF ~sourceCode.present \/ sourceCode.text = <<>>
            THEN [threw |-> "no content", value |-> <<>>]
            ELSE [threw |-> "", value |-> sourceCode.text]

\* nothing was called yet, nothing is cached
InitHandler ==
    /\ RunVarsIdle
    /\ fail_on_error = FALSE
    /\ normalized = <<>>
    /\ bundle = <<>>
    /\ injections = <<>>
    /\ injectErrors = 0
    /\ i = 0
    /\ j = 0
    /\ pc = "handler"
    /\ loaded = <<>>
    /\ calls = <<>>
    /\ sourceMapCache = <<>>
    /\ parses = 0
    /\ ret = NoRet
    /\ config = "null"
    /\ requests = <<>>

\* await loadSourceMap(path)
CallLoadSourceMap ==
    \E path \in MapPathSet \ {""} :
        LET load == loadSourceMap(sourceMapCache, parses, path)
        IN /\ load.parses <= MaxParses
           /\ sourceMapCache' = load.cache
           /\ parses' = load.parses
           /\ ret' = [fn |-> "loadSourceMap", path |-> path, threw |-> load.threw,
                      value |-> load.smc]
           /\ UNCHANGED <<fail_on_error, normalized, bundle, injections, injectErrors,
                          i, j, pc, loaded, calls, runVars, config, requests>>

\* await getSourceByFilename(path, filename)
CallGetSourceByFilename ==
    \E path \in MapPathSet, filename \in FilenameSet :
        LET load == IF path = ""
                    THEN [threw |-> "", smc |-> NoRet, cache |-> sourceMapCache,
                          parses |-> parses]
                    ELSE loadSourceMap(sourceMapCache, parses, path)
            r == getSourceByFilename(path, filename, load)
        IN /\ load.parses <= MaxParses
           /\ sourceMapCache' = load.cache
           /\ parses' = load.parses
           /\ ret' = [fn |-> "getSourceByFilename", path |-> path,
                      filename |-> filename, threw |-> r.threw, value |-> r.value]
           /\ UNCHANGED <<fail_on_error, normalized, bundle, injections, injectErrors,
                          i, j, pc, loaded, calls, runVars, config, requests>>

----------------------------------------------------------------------------
(* mapHandler: the method locator and the fragment extractor *)

\* a statement of a body: where it starts and its text in the source
Stmt(line, column, text) == [loc |-> [line |-> line, column |-> column], text |-> text]

\* a FunctionDeclaration, ClassMethod or ObjectMethod node; keyKind is the
\* type of its id or key ("none" for a function without id)
Callable(type, keyKind, name, line, column, body) ==
    [type |-> type, keyKind |-> keyKind, name |-> name,
     loc |-> [line |-> line, column |-> column], body |-> body,
     declarations |-> <<>>]

\* a declarator of a VariableDeclaration; init is the type of its initializer,
\* "ArrowBlock" for an arrow function with a block body
Declarator(name, init, body) == [name |-> name, init |-> init, body |-> body]

VariableDeclaration(line, column, declarations) ==
    [type |-> "VariableDeclaration", keyKind |-> "", name |-> "",
     loc |-> [line |-> line, column |-> column], body |-> <<>>,
     declarations |-> declarations]

SA == Stmt(2, 2, <<"a", " ", ";">>)
SB == Stmt(3, 2, <<"b", ";">>)
SZ == Stmt(5, 4, <<"z", ";">>)

\* parsed code: the nodes in the order traverse visits them, and the text they
\* were parsed from ("function" and the names are one element each)
CodeSet ==
    { \* function foo(){ a ; b; }
      [ast |-> << Callable("FunctionDeclaration", "Identifier", "foo", 1, 0, <<SA, SB>>) >>,
       fullSource |-> <<"function", " ", "foo", "(", ")", "{", " ", "a", " ", ";", " ",
                        "b", ";", " ", "}">>],
      \* class C{foo(){a ;b;}}
      [ast |-> << Callable("ClassMethod", "Identifier", "foo", 1, 8, <<SA, SB>>) >>,
       fullSource |-> <<"C", "{", "foo", "(", ")", "{", "a", " ", ";", "b", ";", "}", "}">>],
      \* o={foo(){a ;}}
      [ast |-> << Callable("ObjectMethod", "Identifier", "foo", 1, 3, <<SA>>) >>,
       fullSource |-> <<"o", "=", "{", "foo", "(", ")", "{", "a", " ", ";", "}", "}">>],
      \* const foo=()=>{a ;b;}
      [ast |-> << VariableDeclaration(1, 0, << Declarator("foo", "ArrowBlock", <<SA, SB>>) >>) >>,
       fullSource |-> <<"foo", "=", "(", ")", "=", ">", "{", "a", " ", ";", "b", ";", "}">>],
      \* const foo=function foo(){ z; }
      [ast |-> << VariableDeclaration(1, 0, << Declarator("foo", "FunctionExpression", <<SZ>>) >>) >>,
       fullSource |-> <<"foo", "=", "function", " ", "foo", "(", ")", "{", " ", "z", ";",
                        " ", "}">>],
      \* const foo=function foo(){ {z;} b; }
      [ast |-> << VariableDeclaration(1, 0, << Declarator("foo", "FunctionExpression", <<SZ, SB>>) >>) >>,
       fullSource |-> <<"foo", "=", "function", " ", "foo", "(", ")", "{", " ", "{", "z",
                        ";", "}", " ", "b", ";", " ", "}">>],
      \* const foo=()=>a
      [ast |-> << VariableDeclaration(1, 0, << Declarator("foo", "ArrowExpression", <<>>) >>) >>,
       fullSource |-> <<"foo", "=", "(", ")", "=", ">", "a">>],
      \* function foo(){}
      [ast |-> << Callable("FunctionDeclaration", "Identifier", "foo", 1, 0, <<>>) >>,
       fullSource |-> <<"function", " ", "foo", "(", ")", "{", "}">>],
      \* function bar(){a ;}
      [ast |-> << Callable("FunctionDeclaration", "Identifier", "bar", 1, 0, <<SA>>) >>,
       fullSource |-> <<"function", " ", "bar", "(", ")", "{", "a", " ", ";", "}">>],
      \* function foo(){} class C{foo(){a ;}}
      [ast |-> << Callable("FunctionDeclaration", "Identifier", "foo", 1, 0, <<>>),
                  Callable("ClassMethod", "Identifier", "foo", 1, 26, <<SA>>) >>,
       fullSource |-> <<"function", " ", "foo", "(", ")", "{", "}", " ", "C", "{", "foo",
                        "(", ")", "{", "a", " ", ";", "}", "}">>],
      \* class C{foo(){}} function foo(){ z; }
      [ast |-> << Callable("ClassMethod", "Identifier", "foo", 1, 8, <<>>),
                  Callable("FunctionDeclaration", "Identifier", "foo", 4, 0, <<SZ>>) >>,
       fullSource |-> <<"C", "{", "foo", "(", ")", "{", "}", "}", NL, "function", " ",
                        "foo", "(", ")", "{", " ", "z", ";", " ", "}">>],
      \* class C{foo(){}}
      \* //function foo(){ z; }
      [ast |-> << Callable("ClassMethod", "Identifier", "foo", 1, 8, <<>>) >>,
       fullSource |-> <<"C", "{", "foo", "(", ")", "{", "}", "}", NL, "/", "/", "function",
                        " ", "foo", "(", ")", "{", " ", "z", ";", " ", "}">>],
      \* var foo=()=>{a ;},foo=()=>{z;}
      [ast |-> << VariableDeclaration(1, 0, << Declarator("foo", "ArrowBlock", <<SA>>),
                                               Declarator("foo", "ArrowBlock", <<SZ>>) >>) >>,
       fullSource |-> <<"foo", "=", "(", ")", "=", ">", "{", "a", " ", ";", "}", ",", "foo",
                        "=", "(", ")", "=", ">", "{", "z", ";", "}">>],
      \* class C{"foo"(){a ;}}
      [ast |-> << Callable("ClassMethod", "StringLiteral", "foo", 1, 8, <<SA>>) >>,
       fullSource |-> <<"C", "{", "'", "foo", "'", "(", ")", "{", "a", " ", ";", "}", "}">>],
      \* function foo(){b;} o={foo(){a ;}}
      [ast |-> << Callable("FunctionDeclaration", "Identifier", "foo", 1, 0, <<SB>>),
                  Callable("ObjectMethod", "Identifier", "foo", 1, 22, <<SA>>) >>,
       fullSource |-> <<"function", " ", "foo", "(", ")", "{", "b", ";", "}", " ", "o", "=",
                        "{", "foo", "(", ")", "{", "a", " ", ";", "}", "}">>],
      \* function foo(x
      [ast |-> <<>>, fullSource |-> <<"function", " ", "foo", "(", "x">>],
      \* an empty file
      [ast |-> <<>>, fullSource |-> <<>>] }

MethodNameSet == {"foo", "bar"}

\* the last statement of the body
firstStmt_last(body) == body[Len(body)]

\* body.body[0]
firstStmt(body) == body[1]

\* what one visitor of getMethodBodyStart does with a node: the new loc (<<>>
\* stands for null) and whether path.stop() was called
bodyStartVisit(node, methodName, loc) ==
    IF node.type \in {"FunctionDeclaration", "ClassMethod", "ObjectMethod"}
    THEN IF /\ node.keyKind = "Identifier"
            /\ node.name = methodName
            /\ Len(node.body) > 0
         THEN [loc |-> firstStmt(node.body).loc, stop |-> TRUE]
         ELSE [loc |-> loc, stop |-> FALSE]
    ELSE IF node.type = "VariableDeclaration"
    THEN LET hits == { k \in DOMAIN node.declarations :
                         /\ node.declarations[k].name = methodName
                         /\ node.declarations[k].init = "ArrowBlock"
                         /\ Len(node.declarations[k].body) > 0 }
         IN IF hits = {} THEN [loc |-> loc, stop |-> FALSE]
            ELSE LET last == CHOOSE k \in hits : \A h \in hits : h <= k
                 IN [loc |-> firstStmt(node.declarations[last].body).loc, stop |-> TRUE]
    ELSE [loc |-> loc, stop |-> FALSE]

RECURSIVE bodyStartTraverse(_, _, _)
bodyStartTraverse(nodes, methodName, loc) ==
    IF nodes = <<>> THEN loc
    ELSE LET v == bodyStartVisit(Head(nodes), methodName, loc)
         IN IF v.stop THEN v.loc ELSE bodyStartTraverse(Tail(nodes), methodName, v.loc)

\* part_000:67-134
getMethodBodyStart(tree, methodName) == bodyStartTraverse(tree, methodName, <<>>)

isSpace(c) == c \in {" ", NL}

\* generate(stmt, { compact: true }).code
generate(stmt) == SelectSeq(stmt.text, LAMBDA c : ~isSpace(c))

\* the rendered statements with a newline between them
joinEmpty_newlines(list) == join(list)

\* list.join("")
RECURSIVE joinEmpty(_)
joinEmpty(list) ==
    IF list = <<>> THEN <<>> ELSE Head(list) \o joinEmpty(Tail(list))

\* body.body.map((stmt) => generate(stmt, { compact: true }).code).join("")
bodyCode(body) == joinEmpty([k \in DOMAIN body |-> generate(body[k])])

\* what one visitor of getMethodCodeInsideFunction does with a node: the new
\* code ([present |-> FALSE] stands for null) and whether path.stop() was called
codeVisit(node, methodName, code) ==
    IF node.type \in {"FunctionDeclaration", "ClassMethod", "ObjectMethod"}
    THEN IF node.keyKind = "Identifier" /\ node.name = methodName
         THEN [code |-> Text(bodyCode(node.body)), stop |-> TRUE]
         ELSE [code |-> code, stop |-> FALSE]
    ELSE IF node.type = "VariableDeclaration"
    THEN LET hits == { k \in DOMAIN node.declarations :
                         /\ node.declarations[k].name = methodName
                         /\ node.declarations[k].init = "ArrowBlock" }
         IN IF hits = {} THEN [code |-> code, stop |-> FALSE]
            ELSE LET last == CHOOSE k \in hits : \A h \in hits : h <= k
                 IN [code |-> Text(bodyCode(node.declarations[last].body)),
                     stop |-> TRUE]
    ELSE [code |-> code, stop |-> FALSE]

RECURSIVE codeTraverse(_, _, _)
codeTraverse(nodes, methodName, code) ==
    IF nodes = <<>> THEN code
    ELSE LET v == codeVisit(Head(nodes), methodName, code)
         IN IF v.stop THEN v.code ELSE codeTraverse(Tail(nodes), methodName, v.code)

\* the first index from k on that holds no white space (Len + 1 for none)
skipSpace(src, k) ==
    CHOOSE m \in k..(Len(src) + 1) :
        /\ \A q \in k..(m - 1) : isSpace(src[q])
        /\ m = Len(src) + 1 \/ ~isSpace(src[m])

\* the first index from k on that holds c (0 for none)
indexOf(src, c, k) ==
    LET hits == { m \in k..Len(src) : src[m] = c }
    IN IF hits = {} THEN 0 ELSE CHOOSE m \in hits : \A h \in hits : m <= h

\* the match of function\s+<name>\s*\(([^)]*)\)\s*{([\s\S]*?)}\n? that starts
\* at index s: whether there is one, and its second group
matchAt(src, methodName, s) ==
    LET none == [found |-> FALSE, body |-> <<>>]
        a == skipSpace(src, s + 1)
        b == skipSpace(src, a + 1)
        c == indexOf(src, ")", b + 1)
        d == skipSpace(src, c + 1)
        e == indexOf(src, "}", d + 1)
    IN IF src[s] # "function" \/ a = s + 1 \/ a > Len(src) THEN none
       ELSE IF src[a] # methodName \/ b > Len(src) THEN none
       ELSE IF src[b] # "(" \/ c = 0 THEN none
       ELSE IF d > Len(src) THEN none
       ELSE IF src[d] # "{" \/ e = 0 THEN none
       ELSE [found |-> TRUE, body |-> SubSeq(src, d + 1, e - 1)]

\* fullSource.match(...): the leftmost match
match(fullSource, methodName) ==
    LET hits == { s \in DOMAIN fullSource : matchAt(fullSource, methodName, s).found }
    IN IF hits = {} THEN [found |-> FALSE, body |-> <<>>]
       ELSE matchAt(fullSource, methodName, CHOOSE s \in hits : \A h \in hits : s <= h)

\* text.trim()
trim(text) ==
    LET keep == { k \in DOMAIN text : ~isSpace(text[k]) }
    IN IF keep = {} THEN <<>>
       ELSE SubSeq(text, CHOOSE k \in keep : \A h \in keep : k <= h,
                         CHOOSE k \in keep : \A h \in keep : h <= k)

\* a fallback that is tried although the traversal gave a text
useFallback_always(code, fullSource) == fullSource # <<>>

\* if (!code && fullSource)
useFallback(code, fullSource) ==
    (~code.present \/ code.text = <<>>) /\ fullSource # <<>>

\* part_000:240-309
getMethodCodeInsideFunction(tree, fullSource, methodName) ==
    LET code == codeTraverse(tree, methodName, Absent)
        m == match(fullSource, methodName)
    IN IF useFallback(code, fullSource) /\ m.found THEN Text(trim(m.body)) ELSE code

\* getMethodBodyStart(ast, methodName) on a parsed file
CallGetMethodBodyStart ==
    \E file \in CodeSet, methodName \in MethodNameSet :
        /\ ret' = [fn |-> "getMethodBodyStart", ast |-> file.ast,
                   methodName |-> methodName, threw |-> "",
                   value |-> getMethodBodyStart(file.ast, methodName)]
        /\ UNCHANGED <<fail_on_error, normalized, bundle, injections, injectErrors,
                       i, j, pc, loaded, calls, runVars, sourceMapCache, parses,
                       config, requests>>

\* getMethodCodeInsideFunction(mixinAst, mixin.code, code_method), and the
\* same with no source text at hand
CallGetMethodCodeInsideFunction ==
    \E file \in CodeSet, methodName \in MethodNameSet, withSource \in BOOLEAN :
        LET fullSource == IF withSource THEN file.fullSource ELSE <<>>
        IN /\ ret' = [fn |-> "getMethodCodeInsideFunction", ast |-> file.ast,
                      fullSource |-> fullSource, methodName |-> methodName,
                      threw |-> "",
                      value |-> getMethodCodeInsideFunction(file.ast, fullSource,
                                                            methodName)]
           /\ UNCHANGED <<fail_on_error, normalized, bundle, injections, injectErrors,
                          i, j, pc, loaded, calls, runVars, sourceMapCache, parses,
                          config, requests>>

NextHandler ==
    \/ CallLoadSourceMap
    \/ CallGetSourceByFilename
    \/ CallGetMethodBodyStart
    \/ CallGetMethodCodeInsideFunction

SpecHandler == InitHandler /\ [][NextHandler]_vars

----------------------------------------------------------------------------
(* The extension's background script (part_004) *)

\* number of script requests the browser issues
MaxRequests == 2

\* the urls of the script requests
UrlSet == {"app/main.js", "app/main.min.js", "app/vendor.js", "app/other.js"}

\* files.json: config.files with an array of entries; regexObj.test(url) is
\* written as membership of the url in the set the regex accepts
\* the second entry has no name: mainScript is "" for it (line 45)
ConfigFiles ==
    << [regex |-> {"app/main.js", "app/main.min.js"}, name |-> "main.patched.js"],
       [regex |-> {"app/main.min.js", "app/vendor.js"}, name |-> ""] >>

\* config.files after lines 15-21 and 31
files(cfg) == IF cfg = "parsed" THEN ConfigFiles ELSE <<>>

\* config.files.find(entry => entry.regexObj.test(details.url)); 0 when
\* find returns undefined
findEntry(cfg, url) ==
    LET hits == { k \in 1..Len(files(cfg)) : url \in files(cfg)[k].regex }
    IN IF hits = {} THEN 0
       ELSE CHOOSE k \in hits : \A l \in hits : k <= l

\* the text getResource(name) resolves with
mainCode(name) == <<"code of", name>>

\* a request nobody filters: the listener returned {} at line 37 or 42
PassedThrough(url) ==
    [url |-> url, filter |-> "none", fetch |-> "none", mainScript |-> "",
     onstart |-> FALSE, started |-> FALSE, out |-> <<>>]

\* a request with a filter (line 47) and a fetch in flight (line 50)
Filtered(url, name) ==
    [url |-> url, filter |-> "open", fetch |-> "pending", mainScript |-> name,
     onstart |-> FALSE, started |-> FALSE, out |-> <<>>]

InitExt ==
    /\ RunVarsIdle
    /\ fail_on_error = FALSE
    /\ normalized = <<>>
    /\ bundle = <<>>
    /\ injections = <<>>
    /\ injectErrors = 0
    /\ i = 0
    /\ j = 0
    /\ pc = "extension"
    /\ loaded = <<>>
    /\ calls = <<>>
    /\ sourceMapCache = <<>>
    /\ parses = 0
    /\ ret = NoRet
    /\ config = "null"
    /\ requests = <<>>

extFrame ==
    <<fail_on_error, normalized, bundle, injections, injectErrors, i, j, pc,
      loaded, calls, runVars, sourceMapCache, parses, ret>>

\* lines 12-28: files.json arrives and is parsed
ConfigLoaded ==
    /\ pc = "extension"
    /\ config = "null"
    /\ config' \in {"parsed", "parsedNoFiles"}
    /\ UNCHANGED <<extFrame, requests>>

\* lines 29-32: the fetch or JSON.parse failed
ConfigFailed ==
    /\ pc = "extension"
    /\ config = "null"
    /\ config' = "fallback"
    /\ UNCHANGED <<extFrame, requests>>

\* lines 35-63: the onBeforeRequest listener
OnBeforeRequest ==
    /\ pc = "extension"
    /\ Len(requests) < MaxRequests
    /\ \E url \in UrlSet :
           LET k == IF config = "null" THEN 0 ELSE findEntry(config, url)
           IN requests' =
                  Append(requests,
                         IF config = "null" \/ k = 0
                         THEN PassedThrough(url)
                         ELSE Filtered(url, files(config)[k].name))
    /\ UNCHANGED <<extFrame, config>>

\* lines 51-56: the fetch of the replacement resolved; the handler is assigned
FetchResolved ==
    /\ pc = "extension"
    /\ \E r \in 1..Len(requests) :
           /\ requests[r].fetch = "pending"
           /\ requests' = [requests EXCEPT ![r].fetch = "resolved",
                                           ![r].onstart = TRUE]
    /\ UNCHANGED <<extFrame, config>>

\* lines 57-60: the fetch of the replacement failed
FetchRejected ==
    /\ pc = "extension"
    /\ \E r \in 1..Len(requests) :
           /\ requests[r].fetch = "pending"
           /\ requests' = [requests EXCEPT ![r].fetch = "rejected",
                                           ![r].filter = "disconnected"]
    /\ UNCHANGED <<extFrame, config>>

\* the browser's start event of the response filter: it is dispatched once,
\* to the handler assigned at that moment (lines 52-55), if there is one
FilterStart ==
    /\ pc = "extension"
    /\ \E r \in 1..Len(requests) :
           /\ requests[r].filter = "open"
           /\ ~requests[r].started
           /\ requests' =
                  IF requests[r].onstart
                  THEN [requests EXCEPT
                           ![r].started = TRUE,
                           ![r].out = Append(@, mainCode(requests[r].mainScript)),
                           ![r].filter = "disconnected"]
                  ELSE [requests EXCEPT ![r].started = TRUE]
    /\ UNCHANGED <<extFrame, config>>

NextExt ==
    \/ ConfigLoaded
    \/ ConfigFailed
    \/ OnBeforeRequest
    \/ FetchResolved
    \/ FetchRejected
    \/ FilterStart

SpecExt == InitExt /\ [][NextExt]_vars

\* every promise callback and every browser event that is due is delivered
FairExt ==
    /\ WF_vars(ConfigLoaded \/ ConfigFailed)
    /\ WF_vars(FetchResolved \/ FetchRejected)
    /\ WF_vars(FilterStart)

SpecExtFair == SpecExt /\ FairExt

----------------------------------------------------------------------------
(* Text coordinates, counted character by character *)

NLIndices(b) == { k \in 1..Len(b) : b[k] = NL }

NumLines(b) == Cardinality(NLIndices(b)) + 1

NumNewlines(code) == Cardinality(NLIndices(code))

\* number of characters of b in front of line l (1 <= l <= NumLines(b))
LineStart(b, l) ==
    IF l = 1 THEN 0
    ELSE CHOOSE k \in NLIndices(b) :
             Cardinality({ m \in NLIndices(b) : m <= k }) = l - 1

\* number of characters of line l of b, its newline not counted
LineLen(b, l) ==
    (IF l = NumLines(b) THEN Len(b) ELSE LineStart(b, l + 1) - 1) - LineStart(b, l)

\* b with code put in after its first off characters
InsertAt(b, off, code) ==
    SubSeq(b, 1, off) \o code \o SubSeq(b, off + 1, Len(b))

Min(a, b) == IF a < b THEN a ELSE b

\* inj lies behind pos: on a later line, or on the same line at a greater column
Later(inj, pos) ==
    \/ inj.pos.line > pos.line
    \/ inj.pos.line = pos.line /\ inj.pos.column > pos.column

----------------------------------------------------------------------------
(* Claims about the offset computation of injectAtHead *)

\* C4: with an empty injection history the adjusted position is the raw
\* position, and a successful call puts the fragment into line pos.line at
\* column pos.column (at the end of the line when the line is shorter).
C4_EmptyHistoryIdentity ==
    \A k \in 1..Len(calls) :
        LET c == calls[k] IN
        c.previousInjections = <<>> =>
            /\ c.adjustedLine = c.pos.line
            /\ c.adjustedColumn = c.pos.column
            /\ (~c.threw /\ c.pos.column >= 0) =>
                   c.result = InsertAt(c.bundle,
                                       LineStart(c.bundle, c.pos.line)
                                         + Min(c.pos.column, LineLen(c.bundle, c.pos.line)),
                                       c.code)

C4_Witness ==
    /\ pc = "called"
    /\ calls[1].previousInjections = <<>>
    /\ calls[1].pos = [line |-> 5, column |-> 3]
    /\ ~calls[1].threw
    /\ calls[1].result # calls[1].bundle

\* C5: one prior single-line fragment of length L at (line, col); a raw
\* position on the same line with column >= col keeps its line and its
\* column grows by L.
C5_SingleLineSameLineShift ==
    \A k \in 1..Len(calls) :
        LET c == calls[k]
            h == c.previousInjections
        IN (/\ Len(h) = 1
            /\ NumNewlines(h[1].code) = 0
            /\ h[1].pos.line = c.pos.line
            /\ c.pos.column >= h[1].pos.column) =>
               /\ c.adjustedLine = c.pos.line
               /\ c.adjustedColumn = c.pos.column + Len(h[1].code)

C5_Witness ==
    /\ pc = "called"
    /\ calls[1].previousInjections
         = << [pos |-> [line |-> 5, column |-> 3], code |-> <<"Y", "Z">>] >>
    /\ calls[1].pos = [line |-> 5, column |-> 10]
    /\ calls[1].adjustedColumn = 12

\* C6: one prior single-line fragment at (5, 3); the raw position (6, 0) on
\* the next line is unaffected.
C6_LaterLineUnaffected ==
    \A k \in 1..Len(calls) :
        LET c == calls[k]
            h == c.previousInjections
        IN (/\ Len(h) = 1
            /\ NumNewlines(h[1].code) = 0
            /\ h[1].pos = [line |-> 5, column |-> 3]
            /\ c.pos = [line |-> 6, column |-> 0]) =>
               /\ c.adjustedLine = 6
               /\ c.adjustedColumn = 0

\* C7: one prior fragment with N >= 1 newlines at (5, 3); the raw position
\* (6, 0) adjusts to (6 + N, 0).
C7_MultiLineShift ==
    \A k \in 1..Len(calls) :
        LET c == calls[k]
            h == c.previousInjections
        IN (/\ Len(h) = 1
            /\ NumNewlines(h[1].code) >= 1
            /\ h[1].pos = [line |-> 5, column |-> 3]
            /\ c.pos = [line |-> 6, column |-> 0]) =>
               /\ c.adjustedLine = 6 + NumNewlines(h[1].code)
               /\ c.adjustedColumn = 0

C7_Witness ==
    /\ pc = "called"
    /\ calls[1].previousInjections
         = << [pos |-> [line |-> 5, column |-> 3], code |-> <<NL, "R", NL>>] >>
    /\ calls[1].pos = [line |-> 6, column |-> 0]
    /\ calls[1].adjustedLine = 8
    /\ ~calls[1].threw

\* C8: a prior injection on a later line, or on the same line at a strictly
\* greater column, adds nothing to either offset: the adjusted position is
\* the one the history without these entries gives, and the raw position
\* when nothing else is in the history.
C8_LaterInjectionNoEffect ==
    \A k \in 1..Len(calls) :
        LET c == calls[k]
            notLater(inj) == ~Later(inj, c.pos)
            rest == SelectSeq(c.previousInjections, notLater)
        IN /\ c.adjustedLine = c.pos.line + lineOffset(rest, c.pos)
           /\ c.adjustedColumn = c.pos.column + columnOffset(rest, c.pos)
           /\ rest = <<>> => /\ c.adjustedLine = c.pos.line
                             /\ c.adjustedColumn = c.pos.column

C8_Witness ==
    /\ pc = "called"
    /\ Len(calls[1].previousInjections) = 2
    /\ Later(calls[1].previousInjections[1], calls[1].pos)
    /\ NumNewlines(calls[1].previousInjections[1].code) > 0
    /\ ~Later(calls[1].previousInjections[2], calls[1].pos)
    /\ calls[1].adjustedColumn = calls[1].pos.column + 1
    /\ calls[1].adjustedLine = calls[1].pos.line

----------------------------------------------------------------------------
(* Claims about the injection stage of run *)

InRun == pc \in {"mixin", "injection", "injected", "aborted"}

\* pos names a character of b
ValidPos(b, pos) ==
    /\ pos.line \in 1..NumLines(b)
    /\ pos.column \in 0..(LineLen(b, pos.line) - 1)

\* number of characters of b in front of the character at pos
RawOffset(b, pos) == LineStart(b, pos.line) + pos.column

\* the fragments of the history recorded at offset off, in application order
RECURSIVE FragmentsAt(_, _, _)
FragmentsAt(history, b, off) ==
    IF history = <<>> THEN <<>>
    ELSE (IF RawOffset(b, Head(history).pos) = off THEN Head(history).code ELSE <<>>)
         \o FragmentsAt(Tail(history), b, off)

\* b with every fragment of the history in front of the character that
\* stands at the fragment's recorded position in b
RECURSIVE ExpectedFrom(_, _, _)
ExpectedFrom(b, history, off) ==
    IF off >= Len(b) THEN <<>>
    ELSE FragmentsAt(history, b, off) \o <<b[off + 1]>> \o ExpectedFrom(b, history, off + 1)

ExpectedBundle(b, history) == ExpectedFrom(b, history, 0)

\* C1: after any sequence of HEAD injections, each given its raw position
\* (naming a character of the bundle as loaded) and the history of the
\* earlier ones, every fragment sits immediately in front of the character
\* that stood at its raw position in the bundle as loaded.
C1_CoordinatesStayCorrect ==
    (/\ InRun
     /\ Len(calls) >= Len(injections)
     /\ \A k \in 1..Len(injections) :
            /\ ValidPos(loaded, injections[k].pos)
            /\ calls[k].pos = injections[k].pos)
        => bundle = ExpectedBundle(loaded, injections)

\* C2: the history passed to the patcher for the k-th applied injection is
\* the sequence of the k-1 injections applied before it, in application
\* order; a failed or skipped injection never enters it, and no entry is
\* ever reordered or rewritten.
C2_HistoryIsExactlyThePriorInjections ==
    InRun =>
        /\ Len(injections) = Cardinality({ k \in 1..Len(calls) : ~calls[k].threw })
        /\ \A k \in 1..Len(calls) :
              /\ k - 1 <= Len(injections)
              /\ calls[k].previousInjections = SubSeq(injections, 1, k - 1)
              /\ ~calls[k].threw => /\ k <= Len(injections)
                                    /\ injections[k].code = calls[k].code

C2_Witness ==
    /\ InRun
    /\ Len(injections) = 2
    /\ Len(calls) = 2
    /\ calls[2].previousInjections = <<injections[1]>>
    /\ injections[1] # injections[2]

\* C3: every entry of the injection history carries the raw position that
\* was given to the patcher for that splice.
C3_RecordedPositionIsSplicePosition ==
    InRun =>
        \A k \in 1..Len(injections) :
            /\ k <= Len(calls)
            /\ injections[k].pos = calls[k].pos

\* C9: injectAtHead throws exactly when the adjusted line is smaller than 1
\* or greater than the bundle's line count; the throwing call is the last
\* one of the run, and the bundle and the injection history of run are the
\* ones the call was given.
C9_OutOfBoundsKeepsState ==
    InRun =>
        \A k \in 1..Len(calls) :
            LET c == calls[k] IN
            /\ c.threw <=> (c.adjustedLine < 1 \/ c.adjustedLine > NumLines(c.bundle))
            /\ c.threw => /\ k = Len(calls)
                          /\ pc = "aborted"
                          /\ bundle = c.bundle
                          /\ injections = c.previousInjections

C9_Witness ==
    /\ pc = "aborted"
    /\ Len(calls) = 2
    /\ calls[2].threw
    /\ calls[2].adjustedLine > NumLines(calls[2].bundle)
    /\ bundle # loaded
    /\ Len(injections) = 1

\* C10: a successful injectAtHead returns its bundle with the fragment put
\* into the line at the adjusted line number, at the adjusted column (at the
\* end of the line when the line is shorter); every character outside that
\* line keeps its place relative to its neighbours.
C10_OnlyTargetLineChanges ==
    \A k \in 1..Len(calls) :
        LET c == calls[k] IN
        ~c.threw =>
            LET n == LineLen(c.bundle, c.adjustedLine)
                start == LineStart(c.bundle, c.adjustedLine)
            IN /\ \E at \in 0..n : c.result = InsertAt(c.bundle, start + at, c.code)
               /\ c.adjustedColumn >= 0 =>
                     c.result = InsertAt(c.bundle, start + Min(c.adjustedColumn, n), c.code)
               /\ NumLines(c.result) = NumLines(c.bundle) + NumNewlines(c.code)

C10_Witness ==
    /\ InRun
    /\ Len(calls) = 2
    /\ ~calls[2].threw
    /\ calls[2].adjustedLine = 3
    /\ calls[2].adjustedColumn = 1
    /\ NumLines(calls[2].bundle) = 3
    /\ LineLen(calls[2].bundle, 3) = 2

----------------------------------------------------------------------------
(* run as a whole: order, failure policy, output *)

Count(s, c) == Cardinality({ k \in DOMAIN s : s[k] = c })

Chars(s) == { s[k] : k \in DOMAIN s }

RECURSIVE HistoryCount(_, _)
HistoryCount(history, c) ==
    IF history = <<>> THEN 0
    ELSE Count(Head(history).code, c) + HistoryCount(Tail(history), c)

\* the text the compressed libs put in front of the bundle
LibPrefix ==
    IF compressedLibs = <<>> THEN <<>> ELSE join(compressedLibs) \o <<NL>>

RunErrors ==
    loadErrors + sourceErrors + parseErrors + injectErrors + libLoadErrors + compressErrors

AfterLoading ==
    {"findSources", "parseSources", "mixin", "injection", "loadLibs", "compressLibs",
     "done", "aborted"}

AfterFinding == AfterLoading \ {"findSources"}

AfterParsing == AfterFinding \ {"parseSources"}

AfterInjecting == {"loadLibs", "compressLibs", "done"}

\* v is handled before w in the order of priorities, ties in the order given
Precedes(v, w) ==
    IF v.mixin = w.mixin
    THEN \/ v.priority < w.priority
         \/ v.priority = w.priority /\ v.decl < w.decl
    ELSE \/ v.mixinPriority < w.mixinPriority
         \/ v.mixinPriority = w.mixinPriority /\ v.mixin < w.mixin

\* C11: injections are handled mixin by mixin in ascending mixin priority, ties
\* in file order, and inside a mixin in ascending injection priority, ties in
\* declaration order: each injection the loop reaches comes after the one it
\* reached before in that order, whatever the order of the input lists.
C11_DeterministicOrder ==
    [][(visit.mixin # 0 /\ visit' # visit) => Precedes(visit, visit')]_vars

\* the mixin of the first file has priority 1 and is applied second
C11_Witness ==
    /\ i = 1
    /\ visit.mixin = 1
    /\ visit.mixinPriority = 1
    /\ visit.outcome = "applied"
    /\ Len(injections) = 2

\* C12: with fail_on_error the first error of any stage aborts the run: no
\* second error is ever counted, nothing is processed after the abort and
\* nothing is written.
C12_FailFastAborts ==
    /\ [](fail_on_error =>
            /\ RunErrors > 0 => (pc = "aborted" /\ RunErrors = 1)
            /\ pc = "aborted" => written = <<>>)
    /\ [][(fail_on_error /\ pc = "aborted") => UNCHANGED vars]_vars

\* a lib fails to compress after an injection was spliced
C12_Witness ==
    /\ fail_on_error
    /\ pc = "aborted"
    /\ compressErrors = 1
    /\ Len(injections) = 1

\* C13: without fail_on_error, at the end of each stage the successes and the
\* errors of the stage add up to the items the stage was given.
C13_StageCountsAddUp ==
    ~fail_on_error =>
        /\ pc \in AfterLoading => Len(normalized) + loadErrors = Len(mixinPaths)
        /\ pc \in AfterFinding => Len(sources) + sourceErrors = Len(normalized)
        /\ pc \in AfterParsing => Len(parsedSources) + parseErrors = Len(sources)
        /\ pc \in AfterInjecting =>
               Len(injections) + injectErrors = declared(normalized)

\* C14: without fail_on_error no error ends the run before the write stage.
C14_EveryErrorRecoverable ==
    ~fail_on_error => pc # "aborted"

\* C15: every injection the run goes past without applying it has incremented
\* the error counter of the injection stage.
C15_NoSilentSkip ==
    pc # "aborted" => notApplied = injectErrors

\* C16: without fail_on_error an injection whose method is not found counts one
\* injection error, leaves bundle and history as they are and lets the loop go
\* on; a run whose only injection is that one writes the bundle as loaded
\* (behind the libs) with exactly one injection error.
C16_MissingMethodIsNotFatal ==
    /\ [][(~fail_on_error /\ visit' # visit /\ visit'.outcome = "method not found") =>
            /\ injectErrors' = injectErrors + 1
            /\ bundle' = bundle
            /\ injections' = injections
            /\ pc' = "injection"
            /\ j' = j + 1]_vars
    /\ []((/\ ~fail_on_error
           /\ pc = "done"
           /\ declared(normalized) = 1
           /\ visit.outcome = "method not found") =>
            /\ injectErrors = 1
            /\ written = <<LibPrefix \o loaded>>)

C16_Witness ==
    /\ ~fail_on_error
    /\ pc = "done"
    /\ declared(normalized) = 1
    /\ visit.outcome = "method not found"
    /\ Len(written) = 1

\* C17: an injection with where = TAIL ends in the not-implemented error, which
\* ends the run, whatever fail_on_error is and whatever its lookups yield.
C17_TailAlwaysNotImplemented ==
    visit.where = "TAIL" => (visit.outcome = "not implemented" /\ pc = "aborted")

\* C18 as stated: without fail_on_error the text written is the bundle as
\* loaded plus exactly the fragments of the injection history, each once.
C18_WrittenIsOriginalPlusHistory ==
    (~fail_on_error /\ pc = "done") =>
        /\ Len(written) = 1
        /\ \A c \in Chars(written[1]) \cup Chars(loaded) :
             Count(written[1], c) = Count(loaded, c) + HistoryCount(injections, c)

\* C18 as amended: without fail_on_error the text written is the compressed
\* libs, joined by newlines and followed by a newline, and behind them the
\* bundle as loaded plus exactly the fragments of the injection history, each
\* once.
C18_WrittenIsLibsOriginalPlusHistory ==
    (~fail_on_error /\ pc = "done") =>
        /\ Len(written) = 1
        /\ Len(written[1]) >= Len(LibPrefix)
        /\ SubSeq(written[1], 1, Len(LibPrefix)) = LibPrefix
        /\ LET body == SubSeq(written[1], Len(LibPrefix) + 1, Len(written[1]))
           IN \A c \in Chars(written[1]) \cup Chars(loaded) :
                Count(body, c) = Count(loaded, c) + HistoryCount(injections, c)

\* one injection applied, one failed, a lib in front
C18_Witness ==
    /\ ~fail_on_error
    /\ pc = "done"
    /\ Len(injections) = 1
    /\ injectErrors = 1
    /\ compressedLibs # <<>>

\* C19: the output is written at most once, and only when the loop has gone
\* through every mixin and every declared injection was applied or passed
\* over; nothing is written while the injection stage is under way.
C19_WrittenOnceAfterAllInjections ==
    /\ Len(written) <= 1
    /\ pc \in {"mixin", "injection"} => written = <<>>
    /\ written # <<>> =>
         /\ pc = "done"
         /\ i = Len(normalized)
         /\ Len(injections) + notApplied = declared(normalized)

C19_Witness ==
    /\ written # <<>>
    /\ Len(normalized) = 2
    /\ Len(injections) = 1
    /\ notApplied = 1

\* C20: the AST in which the injection stage looks up an injection's method
\* is the one parsed from the source fetched for that injection's mixin.
C20_SourcePairedWithMixin ==
    visit.mixin # 0 => visit.ast = visit.mixin

----------------------------------------------------------------------------
(* mapHandler: cache, source lookup, locator, extractor *)

MapCalls == {"loadSourceMap", "getSourceByFilename"}

\* src ends with filename: src is some prefix followed by filename
IsSuffix(filename, src) ==
    \E n \in 0..Len(src) : SubSeq(src, n + 1, Len(src)) = filename

\* the bodies of the callables of the four shapes that carry the name
NamedBodies(tree, methodName) ==
    { tree[k].body : k \in { n \in DOMAIN tree :
          /\ tree[n].type \in {"FunctionDeclaration", "ClassMethod", "ObjectMethod"}
          /\ tree[n].keyKind = "Identifier"
          /\ tree[n].name = methodName } }
    \cup
    UNION { { tree[k].declarations[d].body : d \in { n \in DOMAIN tree[k].declarations :
                  /\ tree[k].declarations[n].name = methodName
                  /\ tree[k].declarations[n].init = "ArrowBlock" } } :
            k \in { n \in DOMAIN tree : tree[n].type = "VariableDeclaration" } }

RECURSIVE Rendered(_)
Rendered(body) ==
    IF body = <<>> THEN <<>> ELSE generate(Head(body)) \o Rendered(Tail(body))

Nothing(code) == ~code.present \/ code.text = <<>>

\* C21: an entry of the source-map cache is never removed or replaced; a call
\* for a path that is cached constructs no consumer and loadSourceMap returns
\* the cached one; the first loadSourceMap for a readable path constructs one
\* consumer and stores it; there is one consumer per cached path.
C21_OneParsePerMapPath ==
    /\ [][/\ \A p \in DOMAIN sourceMapCache :
               p \in DOMAIN sourceMapCache' /\ sourceMapCache'[p] = sourceMapCache[p]
          /\ (ret'.fn \in MapCalls /\ ret'.path \in DOMAIN sourceMapCache) =>
               /\ parses' = parses
               /\ ret'.fn = "loadSourceMap" => ret'.value = sourceMapCache[ret'.path]
          /\ (/\ ret'.fn = "loadSourceMap"
              /\ ret'.path \notin DOMAIN sourceMapCache
              /\ ret'.path \in DOMAIN MapFiles) =>
               /\ parses' = parses + 1
               /\ ret'.path \in DOMAIN sourceMapCache'
               /\ ret'.value = sourceMapCache'[ret'.path]]_vars
    /\ [](parses = Cardinality(DOMAIN sourceMapCache))

\* the consumer parsed first is returned after another map was parsed
C21_Witness ==
    /\ ret.fn = "loadSourceMap"
    /\ ret.path = "amap"
    /\ ret.threw = ""
    /\ ret.value.id = 1
    /\ parses = 2

\* C22: for a readable map, getSourceByFilename fails with source-not-found
\* exactly when no entry of the source list ends with the filename; else it
\* looks at the first such entry, fails with no-embedded-content when that
\* entry has no (or empty) inlined text and returns that entry's text otherwise.
C22_SourceOfFirstSuffixMatch ==
    (ret.fn = "getSourceByFilename" /\ ret.path \in DOMAIN MapFiles) =>
        LET map == MapFiles[ret.path]
            hits == { k \in DOMAIN map.sources : IsSuffix(ret.filename, map.sources[k]) }
            first == CHOOSE k \in hits : \A h \in hits : k <= h
            inlined == map.hasContent /\ first \in DOMAIN map.sourcesContent
                       /\ map.sourcesContent[first].present
                       /\ map.sourcesContent[first].text # <<>>
        IN /\ hits = {} <=> ret.threw = "not found"
           /\ (hits # {} /\ ~inlined) => ret.threw = "no content"
           /\ (hits # {} /\ inlined) =>
                (ret.threw = "" /\ ret.value = map.sourcesContent[first].text)

\* three entries end with "a"; the content of the first is returned
C22_Witness ==
    /\ ret.fn = "getSourceByFilename"
    /\ ret.path = "amap"
    /\ ret.filename = <<"a">>
    /\ ret.value = <<"A">>

\* C23: getMethodBodyStart never throws; when a callable of one of the four
\* shapes has the name and at least one statement, the result is the start of
\* the first statement of such a callable's body and not a callable's own
\* position; when there is none (no match, or only empty bodies) it is null.
C23_BodyStartIsFirstStatement ==
    ret.fn = "getMethodBodyStart" =>
        LET filled == { b \in NamedBodies(ret.ast, ret.methodName) : Len(b) > 0 }
        IN /\ ret.threw = ""
           /\ filled = {} => ret.value = <<>>
           /\ filled # {} =>
                /\ \E b \in filled : ret.value = b[1].loc
                /\ \A k \in DOMAIN ret.ast : ret.value # ret.ast[k].loc

\* an arrow function with two statements assigned to a variable
C23_Witness ==
    /\ ret.fn = "getMethodBodyStart"
    /\ ret.methodName = "foo"
    /\ Len(ret.ast) = 1
    /\ ret.ast[1].type = "VariableDeclaration"
    /\ Len(ret.ast[1].declarations) = 1
    /\ Len(ret.ast[1].declarations[1].body) = 2
    /\ ret.value = SA.loc

\* C24: when a callable of one of the four shapes has the name,
\* getMethodCodeInsideFunction returns the rendered statements of such a
\* callable's body, each once, in order, with nothing between or around them.
C24_CodeIsTheBodyRendered ==
    (/\ ret.fn = "getMethodCodeInsideFunction"
     /\ NamedBodies(ret.ast, ret.methodName) # {}) =>
        \E b \in NamedBodies(ret.ast, ret.methodName) :
            ret.value = Text(Rendered(b))

----------------------------------------------------------------------------
(* injectAtHead: conservation of text, fragments at one position *)

\* where slice(0, column) cuts a line of n characters
CutOf(column, n) ==
    IF column < 0 THEN (IF n + column < 0 THEN 0 ELSE n + column)
    ELSE Min(column, n)

\* number of characters of the call's bundle in front of its splice point
SplicePoint(c) ==
    LineStart(c.bundle, c.adjustedLine)
        + CutOf(c.adjustedColumn, LineLen(c.bundle, c.adjustedLine))

\* text without the n characters that follow its first off characters
Delete(text, off, n) == SubSeq(text, 1, off) \o SubSeq(text, off + n + 1, Len(text))

\* C26: a successful injectAtHead returns a text that is longer than the
\* bundle by the length of the fragment and has as many more lines as the
\* fragment has newlines; the fragment stands at the splice point (the end of
\* the target line when the adjusted column is beyond it) and deleting it
\* there gives back the bundle.
C26_SpliceConservesText ==
    \A k \in 1..Len(calls) :
        LET c == calls[k] IN
        ~c.threw =>
            /\ Len(c.result) = Len(c.bundle) + Len(c.code)
            /\ NumLines(c.result) = NumLines(c.bundle) + NumNewlines(c.code)
            /\ SubSeq(c.result, SplicePoint(c) + 1, SplicePoint(c) + Len(c.code)) = c.code
            /\ Delete(c.result, SplicePoint(c), Len(c.code)) = c.bundle
            /\ c.adjustedColumn > LineLen(c.bundle, c.adjustedLine) =>
                 SplicePoint(c) = LineStart(c.bundle, c.adjustedLine)
                                    + LineLen(c.bundle, c.adjustedLine)

\* a two-line fragment appended to a line that is shorter than the column
C26_Witness ==
    /\ pc = "called"
    /\ Len(calls) = 1
    /\ ~calls[1].threw
    /\ calls[1].adjustedColumn > LineLen(calls[1].bundle, calls[1].adjustedLine)
    /\ NumNewlines(calls[1].code) = 1

\* C27: when two successive calls of injectAtHead in a run splice single-line
\* fragments at the same raw position, the second fragment is put in directly
\* behind the first; when the first is the first call of the run and the
\* position names a character of the bundle as loaded, both stand, in the order
\* of application, directly in front of that character.
C27_SamePositionKeepsApplicationOrder ==
    \A k \in 1..(Len(calls) - 1) :
        LET a == calls[k]
            b == calls[k + 1]
        IN (/\ a.pos = b.pos
            /\ ~a.threw /\ ~b.threw
            /\ NumNewlines(a.code) = 0 /\ NumNewlines(b.code) = 0) =>
               /\ SplicePoint(b) = SplicePoint(a) + Len(a.code)
               /\ (k = 1 /\ ValidPos(loaded, a.pos)) =>
                    b.result = InsertAt(loaded, RawOffset(loaded, a.pos), a.code \o b.code)

----------------------------------------------------------------------------
(* run: the libs in front of the bundle, the run without mixins *)

RECURSIVE JoinedByNewlines(_)
JoinedByNewlines(texts) ==
    IF Len(texts) = 1 THEN texts[1]
    ELSE texts[1] \o <<NL>> \o JoinedByNewlines(Tail(texts))

\* what the write stage puts in front of the patched bundle
ExpectedPrefix ==
    IF compressedLibs = <<>> THEN <<>> ELSE JoinedByNewlines(compressedLibs) \o <<NL>>

\* C28: while the injection stage is under way no lib is loaded or compressed;
\* in the lib stages the bundle stays as the injection stage left it until the
\* one step that writes, and the text written is the compressed libs joined by
\* newlines, one newline, then that bundle (that bundle alone when no lib was
\* compressed).
C28_LibsPrependedAfterInjections ==
    /\ [](pc \in {"mixin", "injection"} => (loadedLibs = <<>> /\ compressedLibs = <<>>))
    /\ [][(pc \in {"loadLibs", "compressLibs"}) =>
            (IF pc' = "done"
             THEN written' = <<ExpectedPrefix \o bundle>>
             ELSE (bundle' = bundle /\ written' = written))]_vars

\* two libs in front of a bundle with one fragment spliced in
C28_Witness ==
    /\ pc = "done"
    /\ Len(compressedLibs) = 2
    /\ Len(injections) = 1
    /\ Len(written) = 1

\* C29: with no mixin path run returns from its start: no stage runs, no
\* error is counted, the bundle is not changed and nothing is written.
C29_NoMixinsNoOutput ==
    /\ mixinPaths = <<>> =>
         /\ pc \in {"start", "returned"}
         /\ written = <<>>
         /\ RunErrors = 0
         /\ bundle = loaded
         /\ normalized = <<>>
         /\ loadedLibs = <<>>
    /\ pc = "returned" => mixinPaths = <<>>

C29_Witness ==
    /\ pc = "returned"
    /\ mixinPaths = <<>>
    /\ bundle # <<>>

----------------------------------------------------------------------------
(* C30 *)

\* a matched request: the listener created a filter for it
Matched(r) == r <= Len(requests) /\ requests[r].filter # "none"

\* the filter of request r is open, its start event is over, and the handler
\* was assigned only afterwards
LateHandler(r) ==
    /\ requests[r].filter = "open"
    /\ requests[r].started
    /\ requests[r].onstart

\* the filter of request r is disconnected, and the replacement was written
\* to it if the load succeeded
Answered(r) ==
    /\ r <= Len(requests)
    /\ requests[r].filter = "disconnected"
    /\ requests[r].fetch = "resolved" =>
           requests[r].out = <<mainCode(requests[r].mainScript)>>

\* C30: every request that matches a configured file entry eventually has
\* its filter disconnected, with the replacement written when the load
\* succeeded; no matched request is left with an open filter whose start
\* handler was assigned after the start event; a request that arrived while
\* config was still null has no filter at all.
C30_MatchedRequestIsAnswered ==
    /\ [](\A r \in 1..Len(requests) : ~LateHandler(r))
    /\ \A r \in 1..MaxRequests :
           Matched(r) ~> Answered(r)
    /\ [][(config = "null" /\ Len(requests') > Len(requests)) =>
              requests'[Len(requests')].filter = "none"]_vars
====
